---- MODULE Spec2Model ----
(***************************************************************************)
(* A model of the configuration collector (src/main.go): the retry         *)
(* controller runJobWithRetry, the single-job executor runJob, the two     *)
(* transport sessions collectTelnet / collectSSH with their read loops,    *)
(* and the job producer and worker pool of main.                           *)
(*                                                                         *)
(* Go strings are TLA+ strings; an error value is the chain of its         *)
(* messages, outermost first (fmt.Errorf("...: %w", err) puts one message  *)
(* in front of the chain of err), and the nil error is the empty chain.    *)
(* A Transcript (the bytes.Buffer "result") is the sequence of the pieces  *)
(* appended to it, one piece per Fprintf / WriteString call.               *)
(***************************************************************************)
EXTENDS Integers, Sequences, FiniteSets, TLC

VARIABLES
    cancelled,  \* ctx.Done() is closed (cancel() was called)
    wk,         \* worker id -> the locals of the worker goroutine
    faults,     \* worker id -> deviations the device may still produce
    files,      \* the transcripts writeAtomic has persisted, in order
    cfg,        \* the configuration loadConfig returned
    main,       \* the locals of the main goroutine
    jobs,       \* the buffer of the channel "jobs"
    closed,     \* close(jobs) was called
    sent,       \* every Job sent on the channel so far, in order
    log         \* the events main and the workers have logged (a set)

mainVars == <<cfg, main, jobs, closed, sent, log>>
vars == <<cancelled, wk, faults, files, mainVars>>

----------------------------------------------------------------------------
(* Bounds of the model. *)

MaxRetries == 1     \* largest maxRetries handed to runJobWithRetry
MaxFaults == 1      \* device deviations (bad reads, failed writes) per job
MaxChunks == 3      \* chunks a text is cut into before a read loop reads it

(* time.Duration(attempt) * 2 * time.Second, in seconds. *)
BackoffSeconds == 2

(* make(chan Job, len(cfg.Groups)*10) *)
QueuePerGroup == 10

(* Config.Validate and the defaults of main. *)
MaxConcurrency == 50
MaxTimeoutSeconds == 300
DefaultTimeoutSeconds == 30
DefaultConcurrency == 5
SSHPort == 22
TelnetPort == 23
MaxPort == 65535

----------------------------------------------------------------------------
(* Strings. *)

UpperChars == "ABCDEFGHIJKLMNOPQRSTUVWXYZ"
LowerChars == "abcdefghijklmnopqrstuvwxyz"

CharAt(s, i) == SubSeq(s, i, i)

ToLowerChar(c) ==
    IF \E k \in 1..Len(UpperChars) : CharAt(UpperChars, k) = c
    THEN CharAt(LowerChars, CHOOSE k \in 1..Len(UpperChars) : CharAt(UpperChars, k) = c)
    ELSE c

RECURSIVE ToLower(_)
ToLower(s) == IF s = "" THEN "" ELSE ToLowerChar(Head(s)) \o ToLower(Tail(s))

Contains(s, sub) ==
    \E k \in 0..(Len(s) - Len(sub)) : SubSeq(s, k + 1, k + Len(sub)) = sub

IsSpace(c) == c \in {" ", "\t", "\n", "\r"}

RECURSIVE TrimLeft(_)
TrimLeft(s) == IF s # "" /\ IsSpace(Head(s)) THEN TrimLeft(Tail(s)) ELSE s

RECURSIVE TrimRight(_)
TrimRight(s) ==
    IF s # "" /\ IsSpace(CharAt(s, Len(s)))
    THEN TrimRight(SubSeq(s, 1, Len(s) - 1))
    ELSE s

TrimSpace(s) == TrimRight(TrimLeft(s))

----------------------------------------------------------------------------
(* Errors. *)

Nil == << >>
NewError(msg) == <<[msg |-> msg, n |-> 0]>>
Wrap(msg, n, err) == <<[msg |-> msg, n |-> n]>> \o err

Canceled == NewError("context canceled")
NetError == NewError("net error")
ReadTimeout == NewError("i/o timeout")

(* errors.Is(err, target) for a target with a single message. *)
ErrorsIs(err, target) == \E k \in 1..Len(err) : <<err[k]>> = target

----------------------------------------------------------------------------
(* The Vendor Command Profile. *)

(* A variant of commandsForVendor that falls back to a default list, as *)
(* promptsForVendor does, instead of failing.                           *)
commandsForVendor_Default(vendor) ==
    IF vendor \in {"huawei", "zte"}
    THEN [cmds |-> << "display version" >>, err |-> << >>]
    ELSE [cmds |-> << "show version" >>, err |-> << >>]

commandsForVendor(vendor) ==
    CASE vendor = "huawei" ->
            [cmds |-> << "screen-length 0 temporary",
                         "display version",
                         "display license",
                         "display current-configuration",
                         "display interface brief",
                         "display interface description",
                         "display interface transceiver",
                         "display eth-trunk brief",
                         "display bgp peer",
                         "display ospf peer",
                         "display isis peer" >>,
             err |-> Nil]
      [] vendor = "zte" ->
            [cmds |-> << "terminal length 0",
                         "show version",
                         "show license",
                         "show running-config",
                         "show interface brief",
                         "show interface description",
                         "show interface transceiver",
                         "show port-channel brief",
                         "show bgp summary",
                         "show ospf neighbor",
                         "show isis neighbor" >>,
             err |-> Nil]
      [] OTHER ->
            [cmds |-> << >>, err |-> NewError("vendor desconhecido")]

promptsForVendor(vendor) ==
    CASE vendor = "huawei" -> << "<", ">", "]" >>
      [] vendor = "zte" -> << "#", ">" >>
      [] OTHER -> << ">", "#", "$" >>

----------------------------------------------------------------------------
(* The device and the network, as the session sees them. *)

(* What one Read can deliver while the session waits at pc: the pieces of *)
(* a login dialogue before the commands, command output after.            *)
Chunks(pc) ==
    IF pc \in {"tn_login", "tn_password"}
    THEN {"Login:", "Password:", "ok"}
    ELSE {"ok>", "#"}

(* A Read returns data with a nil error, or no data with an error. *)
Reads(pc) ==
    [data : Chunks(pc), err : {"nil"}]
        \cup [data : {""}, err : {"timeout", "eof", "other"}]

(* The answer of a well-behaved device to each wait of the session. *)
Expected(pc) ==
    CASE pc = "tn_login" -> [data |-> "Login:", err |-> "nil"]
      [] pc = "tn_password" -> [data |-> "Password:", err |-> "nil"]
      [] OTHER -> [data |-> "ok>", err |-> "nil"]

(* The hosts that accept a connection; a dial to any other address fails. *)
Reachable(address) == address \in {"10.0.0.1", "10.0.0.2", "10.0.0.3", "core.example"}

(* Any other answer, an expired deadline and a failed write are deviations, *)
(* of which a job meets at most faults[w].                                  *)
MayDeviate(w) == faults[w] > 0
Deviate(w) == faults' = [faults EXCEPT ![w] = @ - 1]

----------------------------------------------------------------------------
(* One iteration of each read loop: what the loop does with the outcome of *)
(* its deadline test and of its Read. "done" says that the function        *)
(* returns, with (out, err); otherwise it loops with the buffer buf.       *)

AnyContains(output, patterns) ==
    \E k \in 1..Len(patterns) : Contains(output, patterns[k])

AnyContainsFold(output, patterns) ==
    \E k \in 1..Len(patterns) : Contains(ToLower(output), ToLower(patterns[k]))

Return(buf, err) == [done |-> TRUE, buf |-> buf, err |-> err]
Continue(buf) == [done |-> FALSE, buf |-> buf, err |-> Nil]

(* A variant of waitForString that looks for the patterns in the newest *)
(* chunk only.                                                          *)
waitForString_NewestChunk(buf, expired, rd, patterns) ==
    IF expired THEN Return(buf, NewError("timeout aguardando padrao"))
    ELSE LET b == buf \o rd.data IN
         IF rd.data # "" /\ AnyContainsFold(rd.data, patterns) THEN Return(b, Nil)
         ELSE IF rd.err = "nil" \/ rd.err = "timeout" THEN Continue(b)
         ELSE Return(b, IF rd.err = "eof" THEN NewError("EOF") ELSE NetError)

waitForString(buf, expired, rd, patterns) ==
    IF expired THEN Return(buf, NewError("timeout aguardando padrao"))
    ELSE LET b == buf \o rd.data IN
         IF rd.data # "" /\ AnyContainsFold(b, patterns) THEN Return(b, Nil)
         ELSE IF rd.err = "nil" \/ rd.err = "timeout" THEN Continue(b)
         ELSE Return(b, IF rd.err = "eof" THEN NewError("EOF") ELSE NetError)

readTelnetOutput(buf, expired, rd, prompts) ==
    IF expired THEN Return(buf, NewError("timeout lendo output"))
    ELSE LET b == buf \o rd.data IN
         IF rd.data # "" /\ AnyContains(b, prompts) THEN Return(b, Nil)
         ELSE IF rd.err = "nil" \/ rd.err = "timeout" THEN Continue(b)
         ELSE Return(b, Nil)

(* A variant of readUntilPrompt that returns io.EOF like any other error. *)
readUntilPrompt_EOFIsError(done, buf, expired, rd, prompts) ==
    IF done THEN Return(buf, Canceled)
    ELSE IF expired THEN Return(buf, NewError("timeout aguardando prompt"))
    ELSE LET b == buf \o rd.data IN
         IF rd.data # "" /\ AnyContains(b, prompts) THEN Return(b, Nil)
         ELSE IF rd.err = "nil" \/ rd.err = "timeout" THEN Continue(b)
         ELSE Return(b, IF rd.err = "eof" THEN NewError("EOF") ELSE NetError)

readUntilPrompt(done, buf, expired, rd, prompts) ==
    IF done THEN Return(buf, Canceled)
    ELSE IF expired THEN Return(buf, NewError("timeout aguardando prompt"))
    ELSE LET b == buf \o rd.data IN
         IF rd.data # "" /\ AnyContains(b, prompts) THEN Return(b, Nil)
         ELSE IF rd.err = "eof" THEN Return(b, Nil)
         ELSE IF rd.err = "nil" \/ rd.err = "timeout" THEN Continue(b)
         ELSE Return(b, NetError)

----------------------------------------------------------------------------
(* The Retry Controller: runJobWithRetry. *)

Set(w, r) == wk' = [wk EXCEPT ![w] = r]

(* The locals of a call runJobWithRetry(ctx, job, maxRetries, cb). *)
Call(job, maxRetries) ==
    [pc |-> "retry", job |-> job, maxRetries |-> maxRetries,
     attempt |-> 0, lastErr |-> Nil, ret |-> Nil, sleepLeft |-> 0,
     cmds |-> << >>, prompts |-> << >>, result |-> << >>,
     open |-> {},      \* the connections and sessions that are open
     deferred |-> {},  \* those a deferred Close of the session will close
     sshCfg |-> << >>, \* the algorithms of the ssh.ClientConfig of collectSSH
     empty |-> {},     \* the lists applySSHLegacyConfig has found empty
     i |-> 0, buf |-> "",
     warned |-> << >>, \* the warnings the current call of runJob has logged
     nRuns |-> 0,      \* calls of runJob so far
     nDials |-> 0]     \* connection attempts so far

(* job.Logger.Warn: one structured event. *)
Event(msg, cmd, err) == [msg |-> msg, cmd |-> cmd, err |-> err]
Logged(r, msg, cmd, err) == [r EXCEPT !.warned = Append(@, Event(msg, cmd, err))]

(* Variants of retryHead with a slip: a loop that stops one attempt *)
(* early, and a cancellation test made before retries only.         *)
retryHead_OffByOne(attempt, maxRetries, done) ==
    IF attempt >= maxRetries THEN "exhausted"
    ELSE IF done THEN "cancelled"
    ELSE IF attempt > 0 THEN "backoff"
    ELSE "run"

retryHead_NoFirstCheck(attempt, maxRetries, done) ==
    IF attempt > maxRetries THEN "exhausted"
    ELSE IF attempt > 0 /\ done THEN "cancelled"
    ELSE IF attempt > 0 THEN "backoff"
    ELSE "run"

retryHead_BackoffFirst(attempt, maxRetries, done) ==
    IF attempt > maxRetries THEN "exhausted"
    ELSE IF attempt > 0 THEN "backoff"
    ELSE IF done THEN "cancelled"
    ELSE "run"

(* Head of the for loop: the loop condition, the select on ctx.Done() and *)
(* the test for a retry.                                                  *)
retryHead(attempt, maxRetries, done) ==
    IF attempt > maxRetries THEN "exhausted"
    ELSE IF done THEN "cancelled"
    ELSE IF attempt > 0 THEN "backoff"
    ELSE "run"

aggregateError(maxRetries, lastErr) ==
    Wrap("falhou apos %d tentativas", maxRetries + 1, lastErr)

RetryLoop(w) ==
    /\ wk[w].pc = "retry"
    /\ LET r == wk[w]
           h == retryHead(r.attempt, r.maxRetries, cancelled)
       IN  Set(w, CASE h = "exhausted" ->
                         [r EXCEPT !.pc = "returned",
                                   !.ret = aggregateError(r.maxRetries, r.lastErr)]
                    [] h = "cancelled" ->
                         [r EXCEPT !.pc = "returned", !.ret = Canceled]
                    [] h = "backoff" ->
                         [r EXCEPT !.pc = "backoff",
                                   !.sleepLeft = r.attempt * BackoffSeconds]
                    [] OTHER -> [r EXCEPT !.pc = "runJob"])
    /\ UNCHANGED <<cancelled, faults, files, mainVars>>

(* time.Sleep(backoff), one second at a step: it wakes when the delay *)
(* has elapsed, whatever ctx.Done() is.                               *)
BackoffSleep(w) ==
    /\ wk[w].pc = "backoff"
    /\ LET r == wk[w] IN
       Set(w, IF r.sleepLeft <= 1
              THEN [r EXCEPT !.pc = "runJob", !.sleepLeft = 0]
              ELSE [r EXCEPT !.sleepLeft = @ - 1])
    /\ UNCHANGED <<cancelled, faults, files, mainVars>>

(* A variant of afterRunJob that gives up at once on an unknown vendor. *)
afterRunJob_FatalVendor(r, err) ==
    LET c == [r EXCEPT !.cmds = << >>, !.prompts = << >>, !.result = << >>,
                       !.warned = << >>]
    IN  IF err = Nil
        THEN [c EXCEPT !.pc = "returned", !.ret = Nil]
        ELSE IF err = NewError("vendor desconhecido")
        THEN [c EXCEPT !.pc = "returned", !.ret = err, !.lastErr = err]
        ELSE [c EXCEPT !.pc = "retry", !.lastErr = err, !.attempt = @ + 1]

(* A variant of afterRunJob whose loop goes on after a nil error. *)
afterRunJob_RetriesOnSuccess(r, err) ==
    LET c == [r EXCEPT !.cmds = << >>, !.prompts = << >>, !.result = << >>,
                       !.warned = << >>]
    IN  [c EXCEPT !.pc = "retry", !.lastErr = err, !.attempt = @ + 1]

(* runJob has returned err to the loop body of runJobWithRetry; the *)
(* locals of runJob are gone.                                       *)
afterRunJob(r, err) ==
    LET c == [r EXCEPT !.cmds = << >>, !.prompts = << >>, !.result = << >>,
                       !.warned = << >>]
    IN  IF err = Nil
        THEN [c EXCEPT !.pc = "returned", !.ret = Nil]
        ELSE [c EXCEPT !.pc = "retry", !.lastErr = err, !.attempt = @ + 1]

----------------------------------------------------------------------------
(* The Single-Job Executor: runJob. *)

(* Variants of afterCollect: one that keeps what a failed session has *)
(* collected and persists it, one whose deferred Close calls run on   *)
(* the normal return only.                                            *)
afterCollect_KeepsPartial(r, out, err) ==
    LET c == [r EXCEPT !.open = @ \ r.deferred, !.deferred = {},
                       !.sshCfg = << >>, !.empty = {},
                       !.result = out, !.buf = "", !.i = 0]
    IN  IF err # Nil /\ out = << >> THEN afterRunJob(c, err)
        ELSE [c EXCEPT !.pc = "persist"]

afterCollect_LeaksOnError(r, out, err) ==
    LET c == [r EXCEPT !.open = IF err = Nil THEN @ \ r.deferred ELSE @,
                       !.deferred = {},
                       !.sshCfg = << >>, !.empty = {},
                       !.result = out, !.buf = "", !.i = 0]
    IN  IF err # Nil THEN afterRunJob(c, err) ELSE [c EXCEPT !.pc = "persist"]

(* collectTelnet / collectSSH has returned (out, err): its deferred Close *)
(* calls run, then runJob returns err or goes on to persist out.          *)
afterCollect(r, out, err) ==
    LET c == [r EXCEPT !.open = @ \ r.deferred, !.deferred = {},
                       !.sshCfg = << >>, !.empty = {},
                       !.result = out, !.buf = "", !.i = 0]
    IN  IF err # Nil THEN afterRunJob(c, err) ELSE [c EXCEPT !.pc = "persist"]

RunJob(w) ==
    /\ wk[w].pc = "runJob"
    /\ LET r == [wk[w] EXCEPT !.nRuns = @ + 1]
           cv == commandsForVendor(r.job.Vendor)
       IN  Set(w, IF cancelled THEN afterRunJob(r, Canceled)
                  ELSE IF cv.err # Nil THEN afterRunJob(r, cv.err)
                  ELSE LET s == [r EXCEPT !.cmds = cv.cmds,
                                          !.prompts = promptsForVendor(r.job.Vendor)]
                       IN  CASE r.job.Protocol = "telnet" -> [s EXCEPT !.pc = "tn_dial"]
                             [] r.job.Protocol = "ssh" -> [s EXCEPT !.pc = "ssh_config"]
                             [] OTHER -> afterRunJob(s, NewError("protocolo desconhecido")))
    /\ UNCHANGED <<cancelled, faults, files, mainVars>>

(* The tail of runJob: writeAtomic, which may fail. *)
Persist(w) ==
    /\ wk[w].pc = "persist"
    /\ LET r == wk[w] IN
       \E ok \in BOOLEAN :
          IF ok
          THEN /\ files' = Append(files, [job |-> r.job, out |-> r.result])
               /\ Set(w, afterRunJob(r, Nil))
          ELSE /\ files' = files
               /\ Set(w, afterRunJob(r, NewError("write file")))
    /\ UNCHANGED <<cancelled, faults, mainVars>>

----------------------------------------------------------------------------
(* The Transcript: the pieces appended to "result". *)

Header(job, protocol) ==
    [kind |-> "header",
     text |-> <<job.Asset.Name, job.Asset.Address, job.Vendor, protocol>>]
CmdHeader(cmd) == [kind |-> "cmd", text |-> <<cmd>>]
Output(out) == [kind |-> "output", text |-> <<out>>]

(* One poll of a read loop: the deadline test and the Read, which agree *)
(* with the well-behaved device or use up one deviation.                *)
Poll(w, expired, rd) ==
    LET dev == expired \/ rd # Expected(wk[w].pc) IN
    /\ expired => rd = Expected(wk[w].pc)
    /\ dev => MayDeviate(w)
    /\ IF dev THEN Deviate(w) ELSE faults' = faults

(* One Write: it succeeds, or fails and uses up one deviation. *)
Write(w, ok) ==
    /\ ~ok => MayDeviate(w)
    /\ IF ok THEN faults' = faults ELSE Deviate(w)

----------------------------------------------------------------------------
(* collectTelnet. *)

TelnetDial(w) ==
    /\ wk[w].pc = "tn_dial"
    /\ LET r == [wk[w] EXCEPT !.nDials = @ + 1] IN
       \E ok \in {b \in BOOLEAN : b => Reachable(r.job.Asset.Address)} :
          Set(w, IF ok
                 THEN [r EXCEPT !.pc = "tn_login", !.open = {"conn"},
                                !.deferred = {"conn"}, !.buf = "",
                                !.result = <<Header(r.job, "telnet")>>]
                 ELSE afterCollect(r, << >>, Wrap("dial telnet", 0, NetError)))
    /\ UNCHANGED <<cancelled, faults, files, mainVars>>

(* One iteration of waitForString, for the login or the password prompt. *)
TelnetWait(w) ==
    /\ wk[w].pc \in {"tn_login", "tn_password"}
    /\ LET r == wk[w]
           login == r.pc = "tn_login"
       IN  \E expired \in BOOLEAN, rd \in Reads(r.pc) :
              /\ Poll(w, expired, rd)
              /\ LET s == waitForString(r.buf, expired, rd,
                              IF login THEN <<"sername:", "ogin:">> ELSE <<"assword:">>)
                 IN  Set(w, IF ~s.done THEN [r EXCEPT !.buf = s.buf]
                            ELSE IF s.err # Nil
                            THEN afterCollect(r, r.result,
                                   Wrap(IF login THEN "timeout aguardando login prompt"
                                        ELSE "timeout aguardando password prompt",
                                        0, s.err))
                            ELSE [r EXCEPT !.pc = IF login THEN "tn_user" ELSE "tn_pass",
                                           !.buf = ""])
    /\ UNCHANGED <<cancelled, files, mainVars>>

(* conn.Write of the username, then of the password. *)
TelnetSend(w) ==
    /\ wk[w].pc \in {"tn_user", "tn_pass"}
    /\ LET r == wk[w]
           user == r.pc = "tn_user"
       IN  \E ok \in BOOLEAN :
              /\ Write(w, ok)
              /\ Set(w, IF ~ok
                        THEN afterCollect(r, r.result,
                               Wrap(IF user THEN "erro enviando username"
                                    ELSE "erro enviando password", 0, NetError))
                        ELSE IF user THEN [r EXCEPT !.pc = "tn_password"]
                        ELSE [r EXCEPT !.pc = "tn_cmd", !.i = 1])
    /\ UNCHANGED <<cancelled, files, mainVars>>

(* The command was written to conn, or the Write failed: the failure is *)
(* logged and the loop continues with the next command.                 *)
(* A variant of telnetWritten that takes the block of a command whose *)
(* Write failed out of the Transcript again.                          *)
telnetWritten_RemovesBlock(r, cmd, ok) ==
    IF ok THEN [r EXCEPT !.pc = "tn_read", !.buf = ""]
    ELSE [Logged(r, "erro enviando comando", cmd, NetError)
             EXCEPT !.i = @ + 1, !.result = SubSeq(@, 1, Len(@) - 1)]

telnetWritten(r, cmd, ok) ==
    IF ok THEN [r EXCEPT !.pc = "tn_read", !.buf = ""]
    ELSE [Logged(r, "erro enviando comando", cmd, NetError) EXCEPT !.i = @ + 1]

(* A variant of telnetOutputRead that loses a command: the loop index *)
(* moves on twice.                                                    *)
telnetOutputRead_SkipsCommand(r, output, err) ==
    [r EXCEPT !.pc = "tn_cmd", !.i = @ + 2, !.buf = "",
              !.result = Append(@, Output(output))]

(* readTelnetOutput returned (output, err): err is logged, the output is *)
(* appended and the loop continues.                                      *)
telnetOutputRead(r, output, err) ==
    LET s == IF err # Nil
             THEN Logged(r, "erro lendo output do comando", TrimSpace(r.cmds[r.i]), err)
             ELSE r
    IN  [s EXCEPT !.pc = "tn_cmd", !.i = @ + 1, !.buf = "",
                  !.result = Append(@, Output(output))]

(* Head and body of the command loop up to the Write; after the last *)
(* command, the quit and the return.                                 *)
TelnetCommand(w) ==
    /\ wk[w].pc = "tn_cmd"
    /\ LET r == wk[w] IN
       IF r.i > Len(r.cmds)
       THEN /\ Set(w, afterCollect(r, r.result, Nil))
            /\ faults' = faults
       ELSE IF cancelled
       THEN /\ Set(w, afterCollect(r, r.result, Canceled))
            /\ faults' = faults
       ELSE LET cmd == TrimSpace(r.cmds[r.i]) IN
            IF cmd = ""
            THEN /\ Set(w, [r EXCEPT !.i = @ + 1])
                 /\ faults' = faults
            ELSE LET s == [r EXCEPT !.result = Append(@, CmdHeader(cmd))] IN
                 \E ok \in BOOLEAN :
                    /\ Write(w, ok)
                    /\ Set(w, telnetWritten(s, cmd, ok))
    /\ UNCHANGED <<cancelled, files, mainVars>>

(* One iteration of readTelnetOutput; when it returns, the output is *)
(* appended whatever the error.                                      *)
TelnetRead(w) ==
    /\ wk[w].pc = "tn_read"
    /\ LET r == wk[w] IN
       \E expired \in BOOLEAN, rd \in Reads(r.pc) :
          /\ Poll(w, expired, rd)
          /\ LET s == readTelnetOutput(r.buf, expired, rd, r.prompts) IN
             Set(w, IF ~s.done THEN [r EXCEPT !.buf = s.buf]
                    ELSE telnetOutputRead(r, s.buf, s.err))
    /\ UNCHANGED <<cancelled, files, mainVars>>

----------------------------------------------------------------------------
(* collectSSH. *)

(* The lists of the SSHLegacy struct, and the defaults that *)
(* applySSHLegacyConfig stores in the lists it finds empty.  *)
LegacyFields == {"KexAlgorithms", "Ciphers", "MACs", "HostKeyAlgorithms"}

LegacyDefaults ==
    [KexAlgorithms |-> << "diffie-hellman-group-exchange-sha256",
                          "diffie-hellman-group-exchange-sha1",
                          "diffie-hellman-group14-sha1",
                          "diffie-hellman-group1-sha1" >>,
     Ciphers |-> << "aes128-ctr", "aes192-ctr", "aes256-ctr", "aes128-cbc",
                    "aes192-cbc", "aes256-cbc", "3des-cbc" >>,
     MACs |-> << "hmac-sha2-256", "hmac-sha2-512", "hmac-sha1", "hmac-sha1-96" >>,
     HostKeyAlgorithms |-> << "ssh-rsa", "ssh-dss" >>]

EmptyFields(legacy) == {f \in LegacyFields : Len(legacy[f]) = 0}

(* The struct after the assignments to the lists in "empty". *)
applySSHLegacyConfig(legacy, empty) ==
    [f \in DOMAIN legacy |-> IF f \in empty THEN LegacyDefaults[f] ELSE legacy[f]]

(* The lists another goroutine is assigning, unsynchronised, while w *)
(* reads them; a slice read during such an assignment may be torn.   *)
RacedFields(w) ==
    UNION {wk[v].empty : v \in {u \in DOMAIN wk : u # w /\ wk[u].pc = "ssh_legacy"}}
Torn == << "torn slice" >>
RacyRead(w, legacy, f) ==
    {legacy[f]} \cup (IF f \in RacedFields(w) THEN {Torn} ELSE {})

(* The head of collectSSH: the ClientConfig and, with the legacy mode *)
(* enabled, the tests of applySSHLegacyConfig for empty lists.        *)
SSHConfig(w) ==
    /\ wk[w].pc = "ssh_config"
    /\ LET r == wk[w] IN
       IF r.job.SSHLegacy = "nil" \/ ~cfg.SSHLegacy[1].Enabled
       THEN Set(w, [r EXCEPT !.pc = "ssh_dial"])
       ELSE \E seen \in SUBSET EmptyFields(cfg.SSHLegacy[1]) :
               /\ EmptyFields(cfg.SSHLegacy[1]) \ RacedFields(w) \subseteq seen
               /\ Set(w, [r EXCEPT !.pc = "ssh_legacy", !.empty = seen])
    /\ UNCHANGED <<cancelled, faults, files, mainVars>>

(* The rest of applySSHLegacyConfig: the defaults are stored in the *)
(* shared struct, the lists are copied to the ClientConfig, and the *)
(* warning is logged.                                               *)
SSHLegacyApply(w) ==
    /\ wk[w].pc = "ssh_legacy"
    /\ LET r == wk[w]
           legacy == applySSHLegacyConfig(cfg.SSHLegacy[1], r.empty)
       IN  /\ cfg' = [cfg EXCEPT !.SSHLegacy = <<legacy>>]
           /\ \E kex \in RacyRead(w, legacy, "KexAlgorithms"),
                 ciphers \in RacyRead(w, legacy, "Ciphers"),
                 macs \in RacyRead(w, legacy, "MACs") :
                 Set(w, [Logged(r, "configuracoes SSH legacy aplicadas", "", Nil)
                            EXCEPT !.pc = "ssh_dial", !.empty = {},
                                   !.sshCfg = <<[KeyExchanges |-> kex,
                                                 Ciphers |-> ciphers,
                                                 MACs |-> macs]>>])
    /\ UNCHANGED <<cancelled, faults, files, main, jobs, closed, sent, log>>

(* A variant of SSHDial that does not defer the Close of the connection. *)
SSHDial_NoDefer(w) ==
    /\ wk[w].pc = "ssh_dial"
    /\ LET r == [wk[w] EXCEPT !.nDials = @ + 1] IN
       \E ok \in {b \in BOOLEAN : b => Reachable(r.job.Asset.Address)} :
          Set(w, IF ok
                 THEN [r EXCEPT !.pc = "ssh_handshake", !.open = {"conn"}]
                 ELSE afterCollect(r, << >>, Wrap("dial tcp", 0, NetError)))
    /\ UNCHANGED <<cancelled, faults, files, mainVars>>

SSHDial(w) ==
    /\ wk[w].pc = "ssh_dial"
    /\ LET r == [wk[w] EXCEPT !.nDials = @ + 1] IN
       \E ok \in {b \in BOOLEAN : b => Reachable(r.job.Asset.Address)} :
          Set(w, IF ok
                 THEN [r EXCEPT !.pc = "ssh_handshake", !.open = {"conn"},
                                !.deferred = {"conn"}]
                 ELSE afterCollect(r, << >>, Wrap("dial tcp", 0, NetError)))
    /\ UNCHANGED <<cancelled, faults, files, mainVars>>

(* ssh.NewClientConn and ssh.NewClient. *)
SSHHandshake(w) ==
    /\ wk[w].pc = "ssh_handshake"
    /\ LET r == wk[w] IN
       \E ok \in BOOLEAN :
          Set(w, IF ok
                 THEN [r EXCEPT !.pc = "ssh_session", !.open = @ \cup {"client"},
                                !.deferred = @ \cup {"client"}]
                 ELSE afterCollect(r, << >>, Wrap("ssh handshake", 0, NetError)))
    /\ UNCHANGED <<cancelled, faults, files, mainVars>>

(* client.NewSession. *)
SSHSession(w) ==
    /\ wk[w].pc = "ssh_session"
    /\ LET r == wk[w] IN
       \E ok \in BOOLEAN :
          Set(w, IF ok
                 THEN [r EXCEPT !.pc = "ssh_shell", !.open = @ \cup {"sess"},
                                !.deferred = @ \cup {"sess"}]
                 ELSE afterCollect(r, << >>, Wrap("new session", 0, NetError)))
    /\ UNCHANGED <<cancelled, faults, files, mainVars>>

(* RequestPty, StdinPipe, StdoutPipe and Shell, then the header. *)
SSHShell(w) ==
    /\ wk[w].pc = "ssh_shell"
    /\ LET r == wk[w] IN
       \E step \in {"request pty", "stdin pipe", "stdout pipe", "start shell", "ok"} :
          Set(w, IF step = "ok"
                 THEN [r EXCEPT !.pc = "ssh_prompt", !.buf = "",
                                !.result = <<Header(r.job, "ssh")>>]
                 ELSE afterCollect(r, << >>, Wrap(step, 0, NetError)))
    /\ UNCHANGED <<cancelled, faults, files, mainVars>>

(* One iteration of readUntilPrompt waiting for the initial prompt: when *)
(* it returns, its error is logged and its output dropped.               *)
SSHPrompt(w) ==
    /\ wk[w].pc = "ssh_prompt"
    /\ LET r == wk[w] IN
       \E expired \in BOOLEAN, rd \in Reads(r.pc) :
          /\ Poll(w, expired, rd)
          /\ LET s == readUntilPrompt(cancelled, r.buf, expired, rd, r.prompts) IN
             Set(w, IF ~s.done THEN [r EXCEPT !.buf = s.buf]
                    ELSE [(IF s.err # Nil
                           THEN Logged(r, "timeout aguardando prompt inicial", "", s.err)
                           ELSE r)
                             EXCEPT !.pc = "ssh_cmd", !.i = 1, !.buf = ""])
    /\ UNCHANGED <<cancelled, files, mainVars>>

(* The command was written to stdin, or the Write failed and collectSSH *)
(* returns the error.                                                   *)
sshWritten(r, cmd, ok) ==
    IF ok THEN [r EXCEPT !.pc = "ssh_read", !.buf = ""]
    ELSE afterCollect(r, r.result, Wrap("write cmd", 0, NetError))

(* A variant of sshOutputRead that gives up the session on a read error. *)
sshOutputRead_AbortsOnError(r, output, err) ==
    IF err # Nil
    THEN afterCollect(r, Append(r.result, Output(output)), err)
    ELSE [r EXCEPT !.pc = "ssh_cmd", !.i = @ + 1, !.buf = "",
                   !.result = Append(@, Output(output))]

(* readUntilPrompt returned (output, err): with or without an error the *)
(* output is appended and the loop continues.                           *)
sshOutputRead(r, output, err) ==
    LET s == IF err # Nil
             THEN Logged(r, "erro lendo output do comando", TrimSpace(r.cmds[r.i]), err)
             ELSE r
    IN  [s EXCEPT !.pc = "ssh_cmd", !.i = @ + 1, !.buf = "",
                  !.result = Append(@, Output(output))]

(* A variant of SSHCommand whose loop does not test ctx.Done(). *)
SSHCommand_NoCancelCheck(w) ==
    /\ wk[w].pc = "ssh_cmd"
    /\ LET r == wk[w] IN
       IF r.i > Len(r.cmds)
       THEN /\ Set(w, afterCollect(r, r.result, Nil))
            /\ faults' = faults
       ELSE LET cmd == TrimSpace(r.cmds[r.i]) IN
            IF cmd = ""
            THEN /\ Set(w, [r EXCEPT !.i = @ + 1])
                 /\ faults' = faults
            ELSE LET s == [r EXCEPT !.result = Append(@, CmdHeader(cmd))] IN
                 \E ok \in BOOLEAN :
                    /\ Write(w, ok)
                    /\ Set(w, sshWritten(s, cmd, ok))
    /\ UNCHANGED <<cancelled, files, mainVars>>

SSHCommand(w) ==
    /\ wk[w].pc = "ssh_cmd"
    /\ LET r == wk[w] IN
       IF r.i > Len(r.cmds)
       THEN /\ Set(w, afterCollect(r, r.result, Nil))
            /\ faults' = faults
       ELSE IF cancelled
       THEN /\ Set(w, afterCollect(r, r.result, Canceled))
            /\ faults' = faults
       ELSE LET cmd == TrimSpace(r.cmds[r.i]) IN
            IF cmd = ""
            THEN /\ Set(w, [r EXCEPT !.i = @ + 1])
                 /\ faults' = faults
            ELSE LET s == [r EXCEPT !.result = Append(@, CmdHeader(cmd))] IN
                 \E ok \in BOOLEAN :
                    /\ Write(w, ok)
                    /\ Set(w, sshWritten(s, cmd, ok))
    /\ UNCHANGED <<cancelled, files, mainVars>>

SSHRead(w) ==
    /\ wk[w].pc = "ssh_read"
    /\ LET r == wk[w] IN
       \E expired \in BOOLEAN, rd \in Reads(r.pc) :
          /\ Poll(w, expired, rd)
          /\ LET s == readUntilPrompt(cancelled, r.buf, expired, rd, r.prompts) IN
             Set(w, IF ~s.done THEN [r EXCEPT !.buf = s.buf]
                    ELSE sshOutputRead(r, s.buf, s.err))
    /\ UNCHANGED <<cancelled, files, mainVars>>

----------------------------------------------------------------------------
(* Cancellation: the signal goroutine calls cancel(). *)

Cancel ==
    /\ ~cancelled
    /\ cancelled' = TRUE
    /\ UNCHANGED <<wk, faults, files, mainVars>>

----------------------------------------------------------------------------
(* The configuration: Config, Group, Asset. A *bool is the empty sequence *)
(* (nil) or a sequence of one boolean.                                    *)

Getenv(name) ==
    CASE name = "ADMIN_PASS" -> "from-env"
      [] name = "SW3_PASS" -> "sw3-env"
      [] OTHER -> ""

(* net.ParseIP(address) != nil, or net.LookupHost(address) succeeds. *)
Resolves(address) ==
    address \in {"10.0.0.1", "10.0.0.2", "10.0.0.3", "core.example", "192.0.2.1"}

GroupGetPassword(g) ==
    IF g.PasswordEnv # "" /\ Getenv(g.PasswordEnv) # "" THEN Getenv(g.PasswordEnv)
    ELSE g.Password

AssetGetPassword(a) ==
    IF a.PasswordEnv # "" /\ Getenv(a.PasswordEnv) # "" THEN Getenv(a.PasswordEnv)
    ELSE a.Password

(* A variant of IsActive whose default is inactive. *)
IsActive_DefaultFalse(a) == IF a.Active = << >> THEN FALSE ELSE a.Active[1]

IsActive(a) == IF a.Active = << >> THEN TRUE ELSE a.Active[1]

RECURSIVE ValidateAssets(_, _, _)
ValidateAssets(assets, i, j) ==
    IF j > Len(assets) THEN Nil
    ELSE LET a == assets[j]
             proto == ToLower(TrimSpace(a.Protocol))
         IN  IF a.Name = "" THEN Wrap("name nao pode ser vazio", j, Nil)
             ELSE IF ~Resolves(a.Address) THEN Wrap("endereco invalido", j, Nil)
             ELSE IF a.Port < 0 \/ a.Port > MaxPort THEN Wrap("porta invalida", j, Nil)
             ELSE IF a.Protocol # "" /\ proto # "ssh" /\ proto # "telnet"
             THEN Wrap("protocolo invalido", j, Nil)
             ELSE ValidateAssets(assets, i, j + 1)

RECURSIVE ValidateGroups(_, _)
ValidateGroups(groups, i) ==
    IF i > Len(groups) THEN Nil
    ELSE LET g == groups[i]
             vendor == ToLower(TrimSpace(g.Vendor))
         IN  IF vendor # "huawei" /\ vendor # "zte" THEN Wrap("vendor invalido", i, Nil)
             ELSE IF g.Username = "" THEN Wrap("username nao pode ser vazio", i, Nil)
             ELSE IF g.Password = "" /\ g.PasswordEnv = ""
             THEN Wrap("configure password ou password_env", i, Nil)
             ELSE IF Len(g.Assets) = 0 THEN Wrap("nenhum asset definido", i, Nil)
             ELSE LET e == ValidateAssets(g.Assets, i, 1) IN
                  IF e # Nil THEN e ELSE ValidateGroups(groups, i + 1)

Validate(c) ==
    IF c.Concurrency > MaxConcurrency THEN NewError("concurrency muito alta")
    ELSE IF c.TimeoutSeconds > MaxTimeoutSeconds THEN NewError("timeout muito alto")
    ELSE ValidateGroups(c.Groups, 1)

(* A variant of WithDefaults that leaves Concurrency as configured. *)
WithDefaults_KeepsConcurrency(c) ==
    [c EXCEPT !.TimeoutSeconds = IF @ <= 0 THEN DefaultTimeoutSeconds ELSE @,
              !.MaxRetries = IF @ < 0 THEN 0 ELSE @]

WithDefaults(c) ==
    [c EXCEPT !.TimeoutSeconds = IF @ <= 0 THEN DefaultTimeoutSeconds ELSE @,
              !.Concurrency = IF @ <= 0 THEN DefaultConcurrency ELSE @,
              !.MaxRetries = IF @ < 0 THEN 0 ELSE @]

(* The configurations the program is started with. *)
NewAsset(name, address, port, protocol, username, password, active) ==
    [Name |-> name, Address |-> address, Port |-> port, Protocol |-> protocol,
     Username |-> username, Password |-> password, PasswordEnv |-> "",
     Active |-> active]

(* A configuration with the legacy SSH mode enabled and no key exchange *)
(* algorithms listed, for two SSH assets and two workers.               *)
LegacyConfig ==
    [Concurrency |-> 2, MaxRetries |-> 0, TimeoutSeconds |-> 30,
     SSHLegacy |-> << [Enabled |-> TRUE,
                       KexAlgorithms |-> << >>,
                       Ciphers |-> << "aes128-cbc" >>,
                       MACs |-> << "hmac-sha1" >>,
                       HostKeyAlgorithms |-> << "ssh-rsa" >>] >>,
     Groups |-> <<
        [Vendor |-> "huawei", Username |-> "admin", Password |-> "pw",
         PasswordEnv |-> "",
         Assets |-> << NewAsset("L1", "10.0.0.1", 22, "ssh", "", "", << >>),
                       NewAsset("L2", "10.0.0.2", 22, "ssh", "", "", << >>) >>] >>]

(* A configuration with one group of more assets than the channel of one *)
(* group holds, all at an address that accepts no connection.            *)
BigNames == << "B01", "B02", "B03", "B04", "B05", "B06", "B07", "B08", "B09",
              "B10", "B11", "B12" >>

BigConfig ==
    [Concurrency |-> 1, MaxRetries |-> 0, TimeoutSeconds |-> 30, SSHLegacy |-> << >>,
     Groups |-> <<
        [Vendor |-> "zte", Username |-> "admin", Password |-> "pw",
         PasswordEnv |-> "",
         Assets |-> [j \in 1..(QueuePerGroup + 2) |->
                        NewAsset(BigNames[j], "192.0.2.1", 22, "ssh", "", "", << >>)]] >>]

(* A configuration that leaves concurrency and max_retries to the *)
(* defaults of main.                                              *)
DefaultsConfig ==
    [Concurrency |-> 0, MaxRetries |-> -1, TimeoutSeconds |-> 0, SSHLegacy |-> << >>,
     Groups |-> <<
        [Vendor |-> "huawei", Username |-> "admin", Password |-> "pw",
         PasswordEnv |-> "",
         Assets |-> << NewAsset("D1", "192.0.2.1", 0, "", "", "", << >>) >>] >>]

(* A configuration with more workers than Validate accepts. *)
TooManyWorkers == [DefaultsConfig EXCEPT !.Concurrency = MaxConcurrency + 1]

Configs ==
    { [Concurrency |-> 2, MaxRetries |-> 0, TimeoutSeconds |-> 0, SSHLegacy |-> << >>,
       Groups |-> <<
          [Vendor |-> " Huawei", Username |-> "admin", Password |-> "",
           PasswordEnv |-> "ADMIN_PASS",
           Assets |-> << NewAsset("SW1", "10.0.0.1", 0, "", "", "", << >>),
                         NewAsset("SW2", "10.0.0.2", 0, "", "", "", <<FALSE>>),
                         [NewAsset("SW3", "10.0.0.3", 0, "Telnet", "ops", "own", <<TRUE>>)
                             EXCEPT !.PasswordEnv = "SW3_PASS"] >>] >>],
      [Concurrency |-> 1, MaxRetries |-> 1, TimeoutSeconds |-> 60, SSHLegacy |-> << >>,
       Groups |-> <<
          [Vendor |-> "zte", Username |-> "admin", Password |-> "",
           PasswordEnv |-> "UNSET_PASS",
           Assets |-> << [NewAsset("R2", "core.example", 0, "telnet", "", "pw2", << >>)
                             EXCEPT !.PasswordEnv = "R2_PASS"],
                         NewAsset("R1", "10.0.0.1", 2222, "ssh", "", "", << >>),
                         NewAsset("R3", "10.0.0.3", 2222, " SSH ", "", "pw3", << >>) >>] >>],
      [Concurrency |-> 1, MaxRetries |-> 0, TimeoutSeconds |-> 30, SSHLegacy |-> << >>,
       Groups |-> <<
          [Vendor |-> "cisco", Username |-> "admin", Password |-> "pw",
           PasswordEnv |-> "",
           Assets |-> << NewAsset("X1", "10.0.0.1", 0, "", "", "", << >>) >>] >>],
      LegacyConfig, BigConfig, DefaultsConfig, TooManyWorkers }

(* The assets of all groups, in the order of the two nested loops. *)
RECURSIVE AllAssets(_, _)
AllAssets(groups, i) ==
    IF i > Len(groups) THEN << >>
    ELSE [j \in 1..Len(groups[i].Assets) |-> [group |-> groups[i], asset |-> groups[i].Assets[j]]]
            \o AllAssets(groups, i + 1)

----------------------------------------------------------------------------
(* The Job Producer: the loops of main that resolve each asset and send *)
(* its Job.                                                             *)

resolveProtocol(a) ==
    LET protocol == ToLower(TrimSpace(a.Protocol)) IN
    IF protocol = "" THEN "ssh" ELSE protocol

(* A variant of the port default that ignores the protocol. *)
resolvePort_AlwaysSSH(a, protocol) == IF a.Port = 0 THEN SSHPort ELSE a.Port

resolvePort(a, protocol) ==
    IF a.Port = 0 THEN (IF protocol = "telnet" THEN TelnetPort ELSE SSHPort)
    ELSE a.Port

resolveUsername(g, a) == IF a.Username = "" THEN g.Username ELSE a.Username

(* A variant of the password hierarchy that prefers the group. *)
resolvePassword_GroupFirst(g, a) ==
    IF GroupGetPassword(g) = "" THEN AssetGetPassword(a) ELSE GroupGetPassword(g)

resolvePassword(g, a) ==
    IF AssetGetPassword(a) = "" THEN GroupGetPassword(g) ELSE AssetGetPassword(a)

NewJob(g, a) ==
    LET protocol == resolveProtocol(a) IN
    [Vendor |-> ToLower(TrimSpace(g.Vendor)),
     Username |-> resolveUsername(g, a),
     Password |-> resolvePassword(g, a),
     Asset |-> [a EXCEPT !.Port = resolvePort(a, protocol)],
     Protocol |-> protocol,
     SSHLegacy |-> IF cfg.SSHLegacy = << >> THEN "nil" ELSE "cfg.SSHLegacy"]

(* What the loop body does with one asset. *)
producerStep(g, a) ==
    IF ~IsActive(a) THEN "inactive"
    ELSE IF resolvePassword(g, a) = "" THEN "no password"
    ELSE "send"

Capacity == Len(cfg.Groups) * QueuePerGroup

(* The zero Job, and a worker goroutine between two jobs. *)
NoJob == [Vendor |-> "", Username |-> "", Password |-> "", Protocol |-> "",
          SSHLegacy |-> "nil",
          Asset |-> NewAsset("", "", 0, "", "", "", << >>)]
Idle == [Call(NoJob, 0) EXCEPT !.pc = "recv"]
Exited == [Call(NoJob, 0) EXCEPT !.pc = "exited"]

(* main up to the start of the workers: Validate, the defaults, the *)
(* channel and the worker goroutines.                               *)
MainStart ==
    /\ main.pc = "start"
    /\ IF Validate(cfg) # Nil
       THEN /\ main' = [main EXCEPT !.pc = "exit 1"]
            /\ log' = log \cup {[msg |-> "config invalida", error |-> Validate(cfg)]}
            /\ UNCHANGED <<cfg, wk, faults>>
       ELSE /\ cfg' = WithDefaults(cfg)
            /\ wk' = [w \in 0..(cfg'.Concurrency - 1) |-> Idle]
            /\ faults' = [w \in 0..(cfg'.Concurrency - 1) |-> 0]
            /\ main' = [main EXCEPT !.pc = "enqueue", !.k = 1]
            /\ log' = log \cup {[msg |-> "iniciando coleta"]}
                         \cup (IF cfg.SSHLegacy # << >> /\ cfg.SSHLegacy[1].Enabled
                               THEN {[msg |-> "SSH legacy mode habilitado"]}
                               ELSE {})
    /\ UNCHANGED <<cancelled, files, jobs, closed, sent>>

(* One iteration of the inner loop: the asset is skipped, or its Job is *)
(* sent, which waits for room in the channel.                           *)
MainEnqueue ==
    /\ main.pc = "enqueue"
    /\ main.k <= Len(AllAssets(cfg.Groups, 1))
    /\ LET e == AllAssets(cfg.Groups, 1)[main.k]
           step == producerStep(e.group, e.asset)
           m == [main EXCEPT !.k = @ + 1, !.total = @ + 1]
       IN  CASE step = "inactive" ->
                  /\ main' = [m EXCEPT !.inactive = @ + 1]
                  /\ log' = log \cup {[msg |-> "asset inativo, ignorando",
                                       asset |-> e.asset.Name,
                                       address |-> e.asset.Address]}
                  /\ UNCHANGED <<jobs, sent>>
             [] step = "no password" ->
                  /\ main' = [m EXCEPT !.active = @ + 1]
                  /\ log' = log \cup {[msg |-> "senha nao configurada",
                                       asset |-> e.asset.Name,
                                       vendor |-> ToLower(TrimSpace(e.group.Vendor)),
                                       username |-> resolveUsername(e.group, e.asset)]}
                  /\ UNCHANGED <<jobs, sent>>
             [] OTHER ->
                  /\ Len(jobs) < Capacity
                  /\ main' = [m EXCEPT !.active = @ + 1]
                  /\ jobs' = Append(jobs, NewJob(e.group, e.asset))
                  /\ sent' = Append(sent, NewJob(e.group, e.asset))
                  /\ log' = log
    /\ UNCHANGED <<cancelled, wk, faults, files, cfg, closed>>

(* A variant of MainClose that goes on to wg.Wait() without close(jobs). *)
MainClose_NoClose ==
    /\ main.pc = "enqueue"
    /\ main.k > Len(AllAssets(cfg.Groups, 1))
    /\ main' = [main EXCEPT !.pc = "wait"]
    /\ log' = log \cup {[msg |-> "jobs enfileirados", total_assets |-> main.total,
                         active |-> main.active, inactive |-> main.inactive]}
    /\ UNCHANGED <<cancelled, wk, faults, files, cfg, jobs, closed, sent>>

MainClose ==
    /\ main.pc = "enqueue"
    /\ main.k > Len(AllAssets(cfg.Groups, 1))
    /\ closed' = TRUE
    /\ main' = [main EXCEPT !.pc = "wait"]
    /\ log' = log \cup {[msg |-> "jobs enfileirados", total_assets |-> main.total,
                         active |-> main.active, inactive |-> main.inactive]}
    /\ UNCHANGED <<cancelled, wk, faults, files, cfg, jobs, sent>>

(* A variant of MainWait that does not wait for the workers. *)
MainWait_NoWait ==
    /\ main.pc = "wait"
    /\ main' = [main EXCEPT !.pc = "done"]
    /\ log' = log \cup {[msg |-> "coleta finalizada"]}
    /\ UNCHANGED <<cancelled, wk, faults, files, cfg, jobs, closed, sent>>

(* wg.Wait() returns once every worker has called wg.Done(). *)
MainWait ==
    /\ main.pc = "wait"
    /\ \A w \in DOMAIN wk : wk[w].pc = "exited"
    /\ main' = [main EXCEPT !.pc = "done"]
    /\ log' = log \cup {[msg |-> "coleta finalizada"]}
    /\ UNCHANGED <<cancelled, wk, faults, files, cfg, jobs, closed, sent>>

----------------------------------------------------------------------------
(* The worker goroutines. *)

(* A variant of WorkerReceive that leaves the Job in the channel. *)
WorkerReceive_Peek(w) ==
    /\ wk[w].pc = "recv"
    /\ IF jobs # << >>
       THEN /\ jobs' = jobs
            /\ Set(w, IF cancelled THEN Exited ELSE Call(Head(jobs), cfg.MaxRetries))
            /\ log' = IF cancelled
                      THEN log \cup {[msg |-> "worker cancelado", worker_id |-> w]}
                      ELSE log
       ELSE /\ closed
            /\ jobs' = jobs
            /\ Set(w, Exited)
            /\ log' = log
    /\ UNCHANGED <<cancelled, faults, files, cfg, main, closed, sent>>

(* for job := range jobs, then the select on ctx.Done() and the call of *)
(* runJobWithRetry.                                                     *)
WorkerReceive(w) ==
    /\ wk[w].pc = "recv"
    /\ IF jobs # << >>
       THEN /\ jobs' = Tail(jobs)
            /\ Set(w, IF cancelled THEN Exited ELSE Call(Head(jobs), cfg.MaxRetries))
            /\ log' = IF cancelled
                      THEN log \cup {[msg |-> "worker cancelado", worker_id |-> w]}
                      ELSE log
       ELSE /\ closed
            /\ jobs' = jobs
            /\ Set(w, Exited)
            /\ log' = log
    /\ UNCHANGED <<cancelled, faults, files, cfg, main, closed, sent>>

(* The event a worker logs when runJobWithRetry returned err for job. *)
jobEvent(job, err) ==
    IF err # Nil
    THEN [msg |-> "job falhou", asset |-> job.Asset.Name, vendor |-> job.Vendor,
          address |-> job.Asset.Address, protocol |-> job.Protocol, error |-> err]
    ELSE [msg |-> "job concluido", asset |-> job.Asset.Name, vendor |-> job.Vendor,
          address |-> job.Asset.Address, protocol |-> job.Protocol]

(* runJobWithRetry returned: the outcome is logged and the loop goes on. *)
WorkerReport(w) ==
    /\ wk[w].pc = "returned"
    /\ Set(w, Idle)
    /\ log' = log \cup {jobEvent(wk[w].job, wk[w].ret)}
    /\ UNCHANGED <<cancelled, faults, files, cfg, main, jobs, closed, sent>>

Init ==
    /\ cancelled = FALSE
    /\ cfg \in Configs
    /\ main = [pc |-> "start", k |-> 0, total |-> 0, active |-> 0, inactive |-> 0]
    /\ wk = << >>
    /\ faults = << >>
    /\ files = << >>
    /\ jobs = << >>
    /\ closed = FALSE
    /\ sent = << >>
    /\ log = {}

Next ==
    \/ Cancel
    \/ MainStart
    \/ MainEnqueue
    \/ MainClose
    \/ MainWait
    \/ \E w \in DOMAIN wk : WorkerReceive(w)
    \/ \E w \in DOMAIN wk : WorkerReport(w)
    \/ \E w \in DOMAIN wk : RetryLoop(w)
    \/ \E w \in DOMAIN wk : BackoffSleep(w)
    \/ \E w \in DOMAIN wk : RunJob(w)
    \/ \E w \in DOMAIN wk : Persist(w)
    \/ \E w \in DOMAIN wk : TelnetDial(w)
    \/ \E w \in DOMAIN wk : TelnetWait(w)
    \/ \E w \in DOMAIN wk : TelnetSend(w)
    \/ \E w \in DOMAIN wk : TelnetCommand(w)
    \/ \E w \in DOMAIN wk : TelnetRead(w)
    \/ \E w \in DOMAIN wk : SSHConfig(w)
    \/ \E w \in DOMAIN wk : SSHLegacyApply(w)
    \/ \E w \in DOMAIN wk : SSHDial(w)
    \/ \E w \in DOMAIN wk : SSHHandshake(w)
    \/ \E w \in DOMAIN wk : SSHSession(w)
    \/ \E w \in DOMAIN wk : SSHShell(w)
    \/ \E w \in DOMAIN wk : SSHPrompt(w)
    \/ \E w \in DOMAIN wk : SSHCommand(w)
    \/ \E w \in DOMAIN wk : SSHRead(w)

Spec == Init /\ [][Next]_vars

----------------------------------------------------------------------------
(* One call of runJobWithRetry, made by a single goroutine with a Job of *)
(* any vendor and protocol, against a device that may deviate.           *)

AnyJob ==
    [Vendor : {"huawei", "zte", "cisco", "HUAWEI"},
     Protocol : {"ssh", "telnet", "serial"},
     Username : {"admin"}, Password : {"secret"}, SSHLegacy : {"cfg.SSHLegacy"},
     Asset : {NewAsset("SW1", "10.0.0.1", SSHPort, "", "", "", << >>)}]

InitJob ==
    /\ cancelled = FALSE
    /\ \E job \in AnyJob, n \in 0..MaxRetries : wk = [w \in {0} |-> Call(job, n)]
    /\ faults \in [{0} -> 0..MaxFaults]
    /\ files = << >>
    /\ cfg = LegacyConfig
    /\ main = [pc |-> "done", k |-> 0, total |-> 0, active |-> 0, inactive |-> 0]
    /\ jobs = << >>
    /\ closed = TRUE
    /\ sent = << >>
    /\ log = {}

NextJob ==
    \/ Cancel
    \/ \E w \in DOMAIN wk : RetryLoop(w)
    \/ \E w \in DOMAIN wk : BackoffSleep(w)
    \/ \E w \in DOMAIN wk : RunJob(w)
    \/ \E w \in DOMAIN wk : Persist(w)
    \/ \E w \in DOMAIN wk : TelnetDial(w)
    \/ \E w \in DOMAIN wk : TelnetWait(w)
    \/ \E w \in DOMAIN wk : TelnetSend(w)
    \/ \E w \in DOMAIN wk : TelnetCommand(w)
    \/ \E w \in DOMAIN wk : TelnetRead(w)
    \/ \E w \in DOMAIN wk : SSHConfig(w)
    \/ \E w \in DOMAIN wk : SSHLegacyApply(w)
    \/ \E w \in DOMAIN wk : SSHDial(w)
    \/ \E w \in DOMAIN wk : SSHHandshake(w)
    \/ \E w \in DOMAIN wk : SSHSession(w)
    \/ \E w \in DOMAIN wk : SSHShell(w)
    \/ \E w \in DOMAIN wk : SSHPrompt(w)
    \/ \E w \in DOMAIN wk : SSHCommand(w)
    \/ \E w \in DOMAIN wk : SSHRead(w)

SpecJob == InitJob /\ [][NextJob]_vars

----------------------------------------------------------------------------
(* Observations used by the properties. *)

UnknownVendor == NewError("vendor desconhecido")
KnownVendors == {"huawei", "zte"}

(* The commands of the "cmd" pieces of a Transcript, in order. *)
RECURSIVE CmdBlocks(_)
CmdBlocks(result) ==
    IF result = << >> THEN << >>
    ELSE IF Head(result).kind = "cmd"
         THEN <<Head(result).text[1]>> \o CmdBlocks(Tail(result))
         ELSE CmdBlocks(Tail(result))

(* The commands of a command list that the loop sends: trimmed, blanks *)
(* left out.                                                           *)
RECURSIVE NonBlank(_)
NonBlank(cmds) ==
    IF cmds = << >> THEN << >>
    ELSE IF TrimSpace(Head(cmds)) = "" THEN NonBlank(Tail(cmds))
         ELSE <<TrimSpace(Head(cmds))>> \o NonBlank(Tail(cmds))

SoftTimeouts == {NewError("timeout lendo output"), NewError("timeout aguardando prompt")}

(* The current call of runJob has logged a read timeout for command cmd. *)
TimedOutOn(r, cmd) ==
    \E k \in 1..Len(r.warned) :
        /\ r.warned[k].msg = "erro lendo output do comando"
        /\ r.warned[k].cmd = cmd
        /\ r.warned[k].err \in SoftTimeouts

(* collectTelnet / collectSSH returned a nil error to runJob. *)
Collected(r) == r.pc = "persist"

----------------------------------------------------------------------------
(* C1: with maxRetries = N >= 0, when every attempt fails and cancellation *)
(* is never raised, runJobWithRetry has called runJob exactly N+1 times    *)
(* when it returns, and it returns the aggregate error that names N+1 and  *)
(* wraps the error of the last attempt.                                    *)
C1_ExhaustsAfterNPlusOne ==
    \A w \in DOMAIN wk :
        LET r == wk[w] IN
        (r.pc = "returned" /\ r.ret # Nil /\ ~cancelled) =>
            /\ r.nRuns = r.maxRetries + 1
            /\ r.lastErr # Nil
            /\ Head(r.ret) = [msg |-> "falhou apos %d tentativas", n |-> r.maxRetries + 1]
            /\ Tail(r.ret) = r.lastErr

C1_Witness ==
    \E w \in DOMAIN wk :
        /\ wk[w].pc = "returned" /\ ~cancelled
        /\ wk[w].maxRetries = 1 /\ wk[w].nRuns = 2
        /\ wk[w].ret = Wrap("falhou apos %d tentativas", 2, Wrap("dial tcp", 0, NetError))

(* C2: if cancellation is already raised when runJobWithRetry is about to *)
(* make its first attempt, its next step returns the cancellation error,  *)
(* and it has called runJob and dialled zero times.                       *)
C2_CancelledBeforeStart ==
    [][\A w \in DOMAIN wk :
          (/\ cancelled
           /\ wk[w].pc = "retry" /\ wk[w].attempt = 0
           /\ wk'[w] # wk[w])
          => (/\ wk'[w].pc = "returned"
              /\ wk'[w].ret = Canceled
              /\ wk'[w].nRuns = 0
              /\ wk'[w].nDials = 0)]_vars

C2_Witness ==
    \E w \in DOMAIN wk :
        /\ wk[w].pc = "returned" /\ wk[w].ret = Canceled
        /\ wk[w].attempt = 0 /\ wk[w].nRuns = 0 /\ wk[w].nDials = 0

(* C3: whenever runJobWithRetry returns an error that stems from the   *)
(* cancellation, the error is the cancellation condition itself, not   *)
(* the cancellation wrapped in the aggregate error.                    *)
C3_CancellationVerbatim ==
    \A w \in DOMAIN wk :
        (wk[w].pc = "returned" /\ ErrorsIs(wk[w].ret, Canceled)) => wk[w].ret = Canceled

(* C4: once cancellation is raised, a Retry Controller inside a backoff *)
(* wait does not go on waiting: its next step leaves the wait.          *)
C4_BackoffAbortsOnCancel ==
    [][\A w \in DOMAIN wk :
          (cancelled /\ wk[w].pc = "backoff" /\ wk'[w] # wk[w])
          => wk'[w].pc # "backoff"]_vars

(* C5 as claimed: a job whose attempt fails with UnknownVendorError is *)
(* attempted exactly once, whatever maxRetries is.                     *)
C5_UnknownVendorOneAttempt ==
    \A w \in DOMAIN wk :
        (wk[w].pc = "returned" /\ ErrorsIs(wk[w].ret, UnknownVendor)) => wk[w].nRuns = 1

(* C5 as amended: a job of an unknown vendor is retried like any other   *)
(* failing job. Every attempt fails with UnknownVendorError before any   *)
(* connection attempt, and unless cancellation is raised the job returns *)
(* after maxRetries+1 attempts with the aggregate error wrapping it.     *)
C5_UnknownVendorRetriedUniformly ==
    \A w \in DOMAIN wk :
        LET r == wk[w] IN
        r.job.Vendor \notin KnownVendors =>
            /\ r.nDials = 0
            /\ r.lastErr \in {Nil, UnknownVendor, Canceled}
            /\ (r.pc = "returned" /\ ~cancelled) =>
                  /\ r.nRuns = r.maxRetries + 1
                  /\ r.ret = Wrap("falhou apos %d tentativas", r.maxRetries + 1, UnknownVendor)

C5_Witness ==
    \E w \in DOMAIN wk :
        /\ wk[w].pc = "returned" /\ ~cancelled
        /\ wk[w].job.Vendor = "cisco"
        /\ wk[w].maxRetries = 1 /\ wk[w].nRuns = 2
        /\ ErrorsIs(wk[w].ret, UnknownVendor)

(* C6 as claimed: both lookups return non-empty results for huawei and  *)
(* zte; for any other vendor both fail (promptsForVendor has no error   *)
(* result, so failing can only mean that it yields no prompt set), and  *)
(* runJob returns before any connection attempt.                        *)
C6_BothLookupsFail ==
    \A w \in DOMAIN wk :
        LET v == wk[w].job.Vendor IN
        IF v \in KnownVendors
        THEN /\ commandsForVendor(v).err = Nil /\ commandsForVendor(v).cmds # << >>
             /\ promptsForVendor(v) # << >>
        ELSE /\ commandsForVendor(v).err = UnknownVendor
             /\ promptsForVendor(v) = << >>
             /\ wk[w].nDials = 0

(* C6 as amended: both lookups return non-empty results for huawei and    *)
(* zte; for any other vendor commandsForVendor fails with                 *)
(* UnknownVendorError while promptsForVendor does not fail and returns    *)
(* the default set ">", "#", "$"; runJob returns the error of             *)
(* commandsForVendor before any connection is attempted or opened.        *)
C6_VendorLookups ==
    \A w \in DOMAIN wk :
        LET r == wk[w]
            v == r.job.Vendor
        IN  IF v \in KnownVendors
            THEN /\ commandsForVendor(v).err = Nil /\ commandsForVendor(v).cmds # << >>
                 /\ promptsForVendor(v) # << >>
            ELSE /\ commandsForVendor(v).err = UnknownVendor
                 /\ commandsForVendor(v).cmds = << >>
                 /\ promptsForVendor(v) = << ">", "#", "$" >>
                 /\ r.nDials = 0 /\ r.open = {}
                 /\ r.pc \in {"retry", "backoff", "runJob", "returned"}
                 /\ (r.nRuns > 0 /\ ~cancelled) => r.lastErr = UnknownVendor

C6_Witness ==
    \E w \in DOMAIN wk :
        /\ wk[w].job.Vendor = "HUAWEI"
        /\ wk[w].nRuns = 1 /\ wk[w].lastErr = UnknownVendor /\ wk[w].nDials = 0

(* C7: in both transports a read timeout on a command never fails the   *)
(* attempt; after the timeout is logged for command k the loop has      *)
(* moved on past k with the block of k in the Transcript, and when the  *)
(* session completes with a nil error every command has its block.      *)
InCommandLoop(r) == r.pc \in {"tn_cmd", "tn_read", "ssh_cmd", "ssh_read"}

RECURSIVE AnsweredBlocks(_)
AnsweredBlocks(cmds) ==
    IF cmds = << >> THEN << >>
    ELSE <<CmdHeader(Head(cmds)), Output("ok>")>> \o AnsweredBlocks(Tail(cmds))

C8_OneBlockPerCommand ==
    /\ \A w \in DOMAIN wk :
          LET r == wk[w] IN
          Collected(r) =>
             /\ CmdBlocks(r.result) = NonBlank(r.cmds)
             /\ r.cmds = commandsForVendor(r.job.Vendor).cmds
             /\ (faults[w] = MaxFaults /\ ~cancelled) =>
                   r.result = <<Header(r.job, r.job.Protocol)>>
                                 \o AnsweredBlocks(NonBlank(r.cmds))
    /\ \A k \in 1..Len(files) :
          CmdBlocks(files[k].out) = NonBlank(commandsForVendor(files[k].job.Vendor).cmds)

C8_Witness ==
    \E w \in DOMAIN wk :
        LET r == wk[w] IN
        /\ Collected(r) /\ faults[w] = MaxFaults /\ ~cancelled
        /\ r.job.Vendor = "zte" /\ r.job.Protocol = "ssh"
        /\ Len(CmdBlocks(r.result)) = 11
        /\ CmdBlocks(r.result)[2] = "show version"
        /\ CmdBlocks(r.result)[4] = "show running-config"

(* C9: in both transports a failed write of a command does not abort the *)
(* job: no attempt ends with the error of a command write.               *)
C9_WriteFailureDoesNotAbort ==
    \A w \in DOMAIN wk :
        /\ ~ErrorsIs(wk[w].lastErr, NewError("write cmd"))
        /\ ~ErrorsIs(wk[w].ret, NewError("write cmd"))

(* The assets of the configuration, and the number of Jobs sent for the *)
(* asset of a given name.                                               *)
Assets == AllAssets(cfg.Groups, 1)
JobsFor(name) == Cardinality({k \in 1..Len(sent) : sent[k].Asset.Name = name})
ProducerFinished == main.pc \in {"wait", "done"}

(* C10: the Job Producer sends no Job for an asset with active=false and, *)
(* once its loops are over, has sent exactly one Job for every asset      *)
(* whose active flag is true or unspecified and whose password resolves;  *)
(* at no moment has an asset more than one Job.                           *)
C10_OneJobPerActiveAsset ==
    \A k \in 1..Len(Assets) :
        LET a == Assets[k].asset
            g == Assets[k].group
        IN  /\ JobsFor(a.Name) <= 1
            /\ a.Active = <<FALSE>> => JobsFor(a.Name) = 0
            /\ ( /\ ProducerFinished
                 /\ a.Active \in {<< >>, <<TRUE>>}
                 /\ resolvePassword(g, a) # "" ) => JobsFor(a.Name) = 1

(* The producer is done with a configuration that has an inactive asset *)
(* and an asset whose active flag is unspecified.                       *)
C10_Witness ==
    /\ ProducerFinished
    /\ \E k \in 1..Len(Assets) :
          Assets[k].asset.Active = <<FALSE>> /\ JobsFor(Assets[k].asset.Name) = 0
    /\ \E k \in 1..Len(Assets) :
          Assets[k].asset.Active = << >> /\ JobsFor(Assets[k].asset.Name) = 1
    /\ \E k \in 1..Len(Assets) :
          Assets[k].asset.Active = <<TRUE>> /\ JobsFor(Assets[k].asset.Name) = 1

(* The configured asset and group a sent Job was built from. *)
SourceOf(job) == CHOOSE e \in {Assets[k] : k \in 1..Len(Assets)} : e.asset.Name = job.Asset.Name

(* C11: every Job on the queue has a port different from 0: a configured *)
(* port of 0 became 23 when the resolved protocol is telnet and 22       *)
(* otherwise, any other configured port is kept, and an unspecified      *)
(* protocol resolved to ssh.                                             *)
C11_ResolvedPort ==
    \A k \in 1..Len(sent) :
        LET job == sent[k]
            a == SourceOf(job).asset
        IN  /\ job.Asset.Port # 0
            /\ a.Port = 0 /\ job.Protocol = "telnet" => job.Asset.Port = 23
            /\ a.Port = 0 /\ job.Protocol # "telnet" => job.Asset.Port = 22
            /\ a.Port # 0 => job.Asset.Port = a.Port
            /\ a.Protocol = "" => job.Protocol = "ssh"
            /\ job.Protocol \in {"ssh", "telnet"}

(* Jobs of both protocols were sent for assets configured with port 0, *)
(* one of them with no protocol configured.                            *)
C11_Witness ==
    /\ \E k \in 1..Len(sent) :
          /\ SourceOf(sent[k]).asset.Port = 0
          /\ SourceOf(sent[k]).asset.Protocol = ""
          /\ sent[k].Asset.Port = 22
    /\ \E k \in 1..Len(sent) :
          /\ SourceOf(sent[k]).asset.Port = 0
          /\ sent[k].Protocol = "telnet"
          /\ sent[k].Asset.Port = 23

(* C12: the username of a Job is the asset's when that is non-empty and *)
(* the group's otherwise; its password is the asset's resolved password *)
(* when that is non-empty and the group's resolved password otherwise.  *)
C12_CredentialHierarchy ==
    \A k \in 1..Len(sent) :
        LET job == sent[k]
            a == SourceOf(job).asset
            g == SourceOf(job).group
        IN  /\ a.Username # "" => job.Username = a.Username
            /\ a.Username = "" => job.Username = g.Username
            /\ AssetGetPassword(a) # "" => job.Password = AssetGetPassword(a)
            /\ AssetGetPassword(a) = "" => job.Password = GroupGetPassword(g)

(* A Job with the asset's own credentials, taken from the asset's     *)
(* environment variable, and a Job with the credentials of its group. *)
C12_Witness ==
    /\ \E k \in 1..Len(sent) :
          /\ sent[k].Username = "ops"
          /\ sent[k].Password = "sw3-env"
    /\ \E k \in 1..Len(sent) :
          /\ SourceOf(sent[k]).asset.Username = ""
          /\ SourceOf(sent[k]).asset.Password = ""
          /\ sent[k].Username = "admin"
          /\ sent[k].Password = "from-env"

(* The goroutine is inside collectTelnet or collectSSH. *)
InSession(r) ==
    r.pc \in {"tn_dial", "tn_login", "tn_user", "tn_password", "tn_pass",
              "tn_cmd", "tn_read", "ssh_config", "ssh_legacy", "ssh_dial",
              "ssh_handshake", "ssh_session",
              "ssh_shell", "ssh_prompt", "ssh_cmd", "ssh_read"}

(* C13: a Transcript is persisted only for an attempt whose session    *)
(* returned nil: writeAtomic is reached only from the normal return of *)
(* the session, a file is written only there, and when the session     *)
(* returns an error nothing is written and its Transcript is dropped.  *)
C13_PersistOnlyAfterNil ==
    [][ /\ files' # files =>
              \E w \in DOMAIN wk :
                 /\ wk[w].pc = "persist"
                 /\ files' = Append(files, [job |-> wk[w].job, out |-> wk[w].result])
        /\ \A w \in DOMAIN wk :
              /\ wk'[w].pc = "persist" /\ wk[w].pc # "persist" =>
                    /\ InCommandLoop(wk[w])
                    /\ wk[w].i > Len(wk[w].cmds)
                    /\ wk'[w].result = wk[w].result
              /\ InSession(wk[w]) /\ ~InSession(wk'[w]) /\ wk'[w].pc # "persist" =>
                    /\ wk'[w].lastErr # Nil
                    /\ wk'[w].pc = "retry"
                    /\ wk'[w].result = << >>
                    /\ files' = files
      ]_vars

(* A session that had collected part of a Transcript returned a write *)
(* error, and no file was written.                                    *)
C13_Witness ==
    \E w \in DOMAIN wk :
       /\ wk[w].pc = "retry"
       /\ wk[w].lastErr = Wrap("write cmd", 0, NetError)
       /\ wk[w].result = << >>
       /\ files = << >>

(* C14: whatever a session has opened is closed when the attempt has *)
(* returned from the session, on every exit path.                    *)
C14_SessionsClosed ==
    \A w \in DOMAIN wk : ~InSession(wk[w]) => wk[w].open = {}

(* An SSH session failed after the connection and the client were open. *)
C14_Witness ==
    \E w \in DOMAIN wk :
       /\ wk[w].pc = "retry"
       /\ wk[w].nDials > 0
       /\ wk[w].lastErr = Wrap("new session", 0, NetError)
       /\ wk[w].open = {}

(* The logical state of the Job of the asset called name: the workers *)
(* that hold it, its place in the channel, the outcome logged for it. *)
AssetNames == {Assets[k].asset.Name : k \in 1..Len(Assets)}
Holders(name) ==
    {w \in DOMAIN wk : wk[w].pc \notin {"recv", "exited"} /\ wk[w].job.Asset.Name = name}
InQueue(name) == {k \in 1..Len(jobs) : jobs[k].Asset.Name = name}
Outcomes(name) ==
    {e \in log : e.msg \in {"job falhou", "job concluido"} /\ e.asset = name}

JobState(name) ==
    IF \E e \in Outcomes(name) : e.msg = "job concluido" THEN "Succeeded"
    ELSE IF \E e \in Outcomes(name) : ErrorsIs(e.error, Canceled) THEN "Cancelled"
    ELSE IF Outcomes(name) # {} THEN "Failed"
    ELSE IF Holders(name) # {} THEN "Running"
    ELSE IF InQueue(name) # {} THEN "Queued"
    ELSE IF JobsFor(name) > 0 THEN "Cancelled"
    ELSE "None"

(* A Job is in one place only: in the channel once, or with one worker, *)
(* or finished.                                                         *)
ExclusivelyOwned(name) ==
    /\ Cardinality(Holders(name)) + Cardinality(InQueue(name)) <= 1
    /\ Outcomes(name) # {} => Holders(name) = {} /\ InQueue(name) = {}
    /\ Cardinality(Outcomes(name)) <= 1

C16_EveryJobLogged ==
    main.pc = "done" =>
        \A k \in 1..Len(sent) :
            \E e \in Outcomes(sent[k].Asset.Name) :
                /\ e.vendor = sent[k].Vendor
                /\ e.protocol = sent[k].Protocol

(* An active asset of the configuration for which no password resolves. *)
MissingPassword ==
    \E k \in 1..Len(Assets) :
        /\ IsActive(Assets[k].asset)
        /\ resolvePassword(Assets[k].group, Assets[k].asset) = ""

(* C17 as claimed: with a configuration in which an active asset has no *)
(* resolvable password, no Job is ever sent and no worker runs one.     *)
C17_MissingPasswordAborts ==
    MissingPassword =>
        /\ sent = << >>
        /\ \A w \in DOMAIN wk : wk[w].pc \in {"recv", "exited"}

(* C18: when main has passed wg.Wait, or has left through os.Exit *)
(* before starting any worker, no worker is still running.        *)
C18_MainWaitsForWorkers ==
    main.pc \in {"done", "exit 1"} => \A w \in DOMAIN wk : wk[w].pc = "exited"

(* main has finished a run in which two workers were started and a *)
(* transcript was persisted.                                       *)
C18_Witness ==
    /\ main.pc = "done"
    /\ Cardinality(DOMAIN wk) = 2
    /\ files # << >>

(* A worker is about to assign lists of the shared SSHLegacy struct; a *)
(* worker is reading or assigning that struct.                        *)
WritesLegacy(w) == wk[w].pc = "ssh_legacy" /\ wk[w].empty # {}
AccessesLegacy(w) == wk[w].pc \in {"ssh_config", "ssh_legacy"}

(* C19 as claimed: no worker writes data that another worker reads or *)
(* writes at the same time; in particular the legacy-transport        *)
(* options of the Jobs are not written by one worker while another    *)
(* worker accesses them.                                              *)
C19_NoSharedWrites ==
    \A w1, w2 \in DOMAIN wk :
        w1 # w2 => ~(WritesLegacy(w1) /\ AccessesLegacy(w2))

(* The goroutine is inside one of the poll loops of a session. *)
InPollLoop(r) == r.pc \in {"tn_login", "tn_password", "tn_read", "ssh_prompt", "ssh_read"}

(* C20 as claimed: once cancellation is raised, a poll loop of a session *)
(* returns at its next cycle: no cycle made after the cancellation       *)
(* leaves the goroutine in the same loop.                                *)
C20_PollLoopsObserveCancel ==
    [][ \A w \in DOMAIN wk :
           cancelled /\ InPollLoop(wk[w]) /\ wk'[w] # wk[w] => wk'[w].pc # wk[w].pc
      ]_vars

----------------------------------------------------------------------------
(* The read loops on their own: one goroutine calls waitForString,     *)
(* readTelnetOutput or readUntilPrompt on a stream that delivers a text *)
(* in chunks, with any pattern list.                                    *)

(* The ways to cut s into at most k non-empty chunks. *)
RECURSIVE Splits(_, _)
Splits(s, k) ==
    IF k <= 1 \/ Len(s) <= 1 THEN {<<s>>}
    ELSE {<<s>>} \cup
         UNION { {<<SubSeq(s, 1, i)>> \o t : t \in Splits(SubSeq(s, i + 1, Len(s)), k - 1)}
                 : i \in 1..(Len(s) - 1) }

Texts == {"User Login: ", "<HUAWEI>", "Password:"}
PatternLists ==
    { <<"sername:", "ogin:">>, <<"assword:">>, <<"<", ">", "]">>, <<"#", ">">>, <<"EI>">> }
ReadLoops == {"waitForString", "readTelnetOutput", "readUntilPrompt"}

(* The locals of one call of a read loop, with the chunks it has read. *)
ReadCall(fn, patterns, stream) ==
    [pc |-> "reading", fn |-> fn, patterns |-> patterns, stream |-> stream,
     buf |-> "", read |-> << >>, last |-> "", err |-> Nil]

loopStep(fn, buf, expired, rd, patterns) ==
    CASE fn = "waitForString" -> waitForString(buf, expired, rd, patterns)
      [] fn = "readTelnetOutput" -> readTelnetOutput(buf, expired, rd, patterns)
      [] OTHER -> readUntilPrompt(cancelled, buf, expired, rd, patterns)

afterPoll(h, s, rd) ==
    [h EXCEPT !.pc = IF s.done THEN "returned" ELSE "reading",
              !.buf = s.buf, !.err = s.err, !.last = rd.err]

(* A Read that delivers the next chunk of the stream. *)
ReadChunk(w) ==
    /\ wk[w].pc = "reading"
    /\ wk[w].stream # << >>
    /\ LET h == wk[w]
           rd == [data |-> Head(h.stream), err |-> "nil"]
           s == loopStep(h.fn, h.buf, FALSE, rd, h.patterns)
       IN  Set(w, [afterPoll(h, s, rd) EXCEPT !.stream = Tail(h.stream),
                                              !.read = Append(h.read, rd.data)])
    /\ UNCHANGED <<cancelled, faults, files, mainVars>>

(* A poll that delivers nothing: the deadline has expired, or the Read *)
(* fails with a timeout, the end of the stream or another error.       *)
ReadNothing(w) ==
    /\ wk[w].pc = "reading"
    /\ LET h == wk[w] IN
       \E expired \in BOOLEAN, e \in {"timeout", "eof", "other"} :
          LET rd == [data |-> "", err |-> e]
              s == loopStep(h.fn, h.buf, expired, rd, h.patterns)
          IN  Set(w, afterPoll(h, s, IF expired THEN [rd EXCEPT !.err = "expired"] ELSE rd))
    /\ UNCHANGED <<cancelled, faults, files, mainVars>>

InitRead ==
    /\ cancelled = FALSE
    /\ \E fn \in ReadLoops, patterns \in PatternLists, text \in Texts :
          \E stream \in Splits(text, MaxChunks) :
             wk = [w \in {0} |-> ReadCall(fn, patterns, stream)]
    /\ faults = [w \in {0} |-> 0]
    /\ files = << >>
    /\ cfg = LegacyConfig
    /\ main = [pc |-> "done", k |-> 0, total |-> 0, active |-> 0, inactive |-> 0]
    /\ jobs = << >>
    /\ closed = TRUE
    /\ sent = << >>
    /\ log = {}

NextRead ==
    \/ \E w \in DOMAIN wk : ReadChunk(w)
    \/ \E w \in DOMAIN wk : ReadNothing(w)

SpecRead == InitRead /\ [][NextRead]_vars

(* All the data a call has read, and whether a pattern occurs in a text *)
(* as the loop fn compares it.                                          *)
RECURSIVE Concat(_)
Concat(chunks) == IF chunks = << >> THEN "" ELSE Head(chunks) \o Concat(Tail(chunks))

Found(fn, text, patterns) ==
    \E k \in 1..Len(patterns) :
        IF fn = "waitForString"
        THEN Contains(ToLower(text), ToLower(patterns[k]))
        ELSE Contains(text, patterns[k])

(* C21: a read loop looks for the patterns in everything read since the *)
(* call began: as soon as the chunks read so far, put together, contain *)
(* a pattern, the loop has returned without an error, however the text  *)
(* was cut into chunks; and it returns on a chunk only for a match.     *)
C21_WholeBufferSearch ==
    \A w \in DOMAIN wk :
        LET h == wk[w] IN
        /\ Found(h.fn, Concat(h.read), h.patterns) =>
              /\ h.pc = "returned"
              /\ h.err = Nil
              /\ h.buf = Concat(h.read)
        /\ h.pc = "returned" /\ h.last = "nil" =>
              Found(h.fn, Concat(h.read), h.patterns)

(* A loop has returned on a pattern that no single chunk contains. *)
C21_Witness ==
    \E w \in DOMAIN wk :
        LET h == wk[w] IN
        /\ h.pc = "returned"
        /\ h.err = Nil
        /\ Len(h.read) >= 2
        /\ Found(h.fn, Concat(h.read), h.patterns)
        /\ \A k \in 1..Len(h.read) : ~Found(h.fn, h.read[k], h.patterns)
        /\ h.fn = "readUntilPrompt"

IsPrefix(a, b) == Len(a) <= Len(b) /\ a = SubSeq(b, 1, Len(a))

(* C22: at every point of a session the command blocks of the Transcript *)
(* are the first commands of the vendor's list, in the order of the      *)
(* list, no more than the list has; and the Transcript only grows: what  *)
(* was appended is never reordered, duplicated or removed.               *)
C22_BlocksArePrefix ==
    [][ \A w \in DOMAIN wk :
           LET r == wk[w]
               q == wk'[w]
           IN  /\ InCommandLoop(q) \/ Collected(q) =>
                     /\ IsPrefix(CmdBlocks(q.result), NonBlank(q.cmds))
                     /\ Len(CmdBlocks(q.result)) <= Len(q.cmds)
                     /\ q.cmds = commandsForVendor(q.job.Vendor).cmds
               /\ InCommandLoop(r) /\ (InCommandLoop(q) \/ Collected(q)) =>
                     IsPrefix(r.result, q.result)
      ]_vars

(* A Telnet session went on after the Write of a command had failed, *)
(* and has appended the block of the next command.                   *)
C22_Witness ==
    \E w \in DOMAIN wk :
        /\ wk[w].pc = "tn_read"
        /\ \E k \in 1..Len(wk[w].warned) : wk[w].warned[k].msg = "erro enviando comando"
        /\ Len(CmdBlocks(wk[w].result)) >= 2

(* The goroutine is at the head of a command loop with a command left. *)
AtCommand(r) == r.pc \in {"tn_cmd", "ssh_cmd"} /\ r.i <= Len(r.cmds)

(* C23: at the head of the command loop of both transports, with      *)
(* cancellation raised, the next step of the session writes no command *)
(* and returns the cancellation error: the attempt is over, with       *)
(* context.Canceled as its error, and nothing was appended or written. *)
C23_CancelBeforeEachCommand ==
    [][ \A w \in DOMAIN wk :
           LET r == wk[w]
               q == wk'[w]
           IN  cancelled /\ AtCommand(r) /\ q # r =>
                  /\ q.pc = "retry"
                  /\ q.lastErr = Canceled
                  /\ q.attempt = r.attempt + 1
                  /\ q.open = {}
                  /\ faults' = faults
                  /\ files' = files
      ]_vars

(* An SSH attempt that had dialled ended with the cancellation error. *)
C23_Witness ==
    \E w \in DOMAIN wk :
        /\ wk[w].pc = "retry"
        /\ wk[w].lastErr = Canceled
        /\ wk[w].nDials = wk[w].nRuns
        /\ wk[w].job.Protocol = "ssh"

(* C24 as claimed: no Job has left the channel before the loops of the *)
(* producer are over.                                                  *)
C24_FilledBeforeDrained ==
    Len(jobs) < Len(sent) => main.k > Len(Assets)

(* The producer is at the send of a Job and the channel is full. *)
SendBlocked ==
    /\ main.pc = "enqueue"
    /\ main.k <= Len(Assets)
    /\ producerStep(Assets[main.k].group, Assets[main.k].asset) = "send"
    /\ Len(jobs) >= Capacity

(* C25 as claimed: the channel has room for every Job the producer *)
(* sends, so the producer never waits at a send.                   *)
C25_SendNeverBlocks == ~SendBlocked

EndOfStream == [data |-> "", err |-> "eof"]

(* The session after the command read that r waits in has met the end of *)
(* the stream: s is what the read loop returned, q the session after it.  *)
ReadEnded(r, s, q) ==
    /\ s = Return(r.buf, Nil)
    /\ q.pc = IF r.pc = "ssh_read" THEN "ssh_cmd" ELSE "tn_cmd"
    /\ q.i = r.i + 1
    /\ q.result = Append(r.result, Output(r.buf))
    /\ q.warned = r.warned
    /\ q.lastErr = r.lastErr
    /\ q.attempt = r.attempt
    /\ q.open = r.open

Running == {w \in DOMAIN wk : wk[w].pc \notin {"recv", "exited"}}

(* C28: main starts C workers, where C is the configured concurrency, or *)
(* 5 when that is zero or negative, and never more than 50; from then on *)
(* there are C workers, and so at most C Jobs running, whatever the      *)
(* number of Jobs in the channel; before, and when the configuration is  *)
(* rejected, no Job runs.                                                *)
C28_AtMostCRunning ==
    [][ /\ main.pc = "start" /\ main'.pc = "enqueue" =>
              /\ cfg'.Concurrency = IF cfg.Concurrency <= 0 THEN DefaultConcurrency
                                    ELSE cfg.Concurrency
              /\ cfg'.Concurrency <= MaxConcurrency
        /\ IF main'.pc \in {"start", "exit 1"}
           THEN Running' = {}
           ELSE /\ Cardinality(DOMAIN wk') = cfg'.Concurrency
                /\ Cardinality(Running') <= cfg'.Concurrency
                /\ cfg'.Concurrency \in 1..MaxConcurrency
      ]_vars

(* Every worker runs a Job and more Jobs wait in the channel. *)
C28_Witness ==
    /\ main.pc # "start"
    /\ Cardinality(Running) = cfg.Concurrency
    /\ Len(jobs) >= 2

(* The Transport Sessions a goroutine has open: its connection, with the *)
(* SSH client and shell channel layered on it.                            *)
Sessions(r) == IF "conn" \in r.open THEN 1 ELSE 0

(* The attempt has dialled with success and has not returned yet. *)
Connected(r) ==
    r.pc \in {"tn_login", "tn_user", "tn_password", "tn_pass", "tn_cmd", "tn_read",
              "ssh_handshake", "ssh_session", "ssh_shell", "ssh_prompt",
              "ssh_cmd", "ssh_read"}

(* C29 as claimed: every Job that a worker holds has exactly one open *)
(* Transport Session, and a worker without a Job has none.            *)
C29_ExactlyOneSession ==
    \A w \in DOMAIN wk :
        IF w \in Running THEN Sessions(wk[w]) = 1 ELSE wk[w].open = {}

(* C29: a Job has at most one open Transport Session: exactly one, with *)
(* its Close deferred, from the successful dial of an attempt until the  *)
(* attempt returns, and none before the dial, in a backoff wait, while   *)
(* the Transcript is persisted and when the worker holds no Job; so no   *)
(* session is kept from one attempt or Job to the next.                  *)
C29_OneSessionPerAttempt ==
    \A w \in DOMAIN wk :
        LET r == wk[w] IN
        IF Connected(r)
        THEN /\ Sessions(r) = 1
             /\ r.open \subseteq {"conn", "client", "sess"}
             /\ r.deferred = r.open
             /\ w \in Running
        ELSE r.open = {}

(* Two workers are each in a session of their own at the same time, one *)
(* of them in the command loop.                                         *)
C29_Witness ==
    \E v, w \in DOMAIN wk :
        /\ v # w
        /\ Connected(wk[v])
        /\ Connected(wk[w])
        /\ wk[v].job.Asset.Name # wk[w].job.Asset.Name
        /\ wk[w].pc \in {"tn_cmd", "ssh_cmd"}

(* The producer waits at a send on a full channel and every worker has *)
(* returned: no goroutine is left to receive, and main never returns.   *)
ProducerStuck ==
    /\ SendBlocked
    /\ \A w \in DOMAIN wk : wk[w].pc = "exited"

(* C30 as claimed: a run with cancellation still ends, so it never gets  *)
(* to a state where the producer waits for room in the channel after the *)
(* last worker has returned.                                             *)
C30_TerminatesOnCancel == cancelled => ~ProducerStuck

----------------------------------------------------------------------------
(* The run under a scheduler: every goroutine that can take a step takes *)
(* one in the end. The signal is not scheduled: it may never come.       *)

(* The legacy configuration for a single worker. *)
LegacySingle == [LegacyConfig EXCEPT !.Concurrency = 1]

LiveConfigs == {c \in Configs : c.SSHLegacy = << >>} \cup {LegacySingle}

InitLive ==
    /\ cancelled = FALSE
    /\ cfg \in LiveConfigs
    /\ main = [pc |-> "start", k |-> 0, total |-> 0, active |-> 0, inactive |-> 0]
    /\ wk = << >>
    /\ faults = << >>
    /\ files = << >>
    /\ jobs = << >>
    /\ closed = FALSE
    /\ sent = << >>
    /\ log = {}

(* The steps of main outside the enqueue loop. *)
MainStep == MainStart \/ MainClose \/ MainWait

(* The steps of the worker goroutines. *)
WorkerStep ==
    \E w \in DOMAIN wk :
        \/ WorkerReceive(w) \/ WorkerReport(w) \/ RetryLoop(w) \/ BackoffSleep(w)
        \/ RunJob(w) \/ Persist(w) \/ TelnetDial(w) \/ TelnetWait(w) \/ TelnetSend(w)
        \/ TelnetCommand(w) \/ TelnetRead(w) \/ SSHConfig(w) \/ SSHLegacyApply(w)
        \/ SSHDial(w) \/ SSHHandshake(w) \/ SSHSession(w) \/ SSHShell(w)
        \/ SSHPrompt(w) \/ SSHCommand(w) \/ SSHRead(w)

(* The enqueue loop can take its next iteration: an asset is left, and *)
(* its Job, if it has one, finds room in the channel. This is ENABLED   *)
(* MainEnqueue, written as a state predicate.                           *)
CanEnqueue == main.pc = "enqueue" /\ main.k <= Len(Assets) /\ ~SendBlocked

(* Weak fairness of main, of the workers, and of the enqueue loop (in *)
(* the form []<>~ENABLED \/ []<>step).                                *)
FairSpec ==
    /\ InitLive
    /\ [][Next]_vars
    /\ WF_vars(MainStep)
    /\ WF_vars(WorkerStep)
    /\ []<>(~CanEnqueue) \/ []<><<MainEnqueue>>_vars

(* Every Job that was sent has a logged outcome. *)
AllExecuted == \A k \in 1..Len(sent) : Outcomes(sent[k].Asset.Name) # {}

(* main has returned after a complete run: the channel is closed and *)
(* empty, every worker has exited and every Job was executed.        *)
Completed ==
    /\ main.pc = "done"
    /\ closed
    /\ jobs = << >>
    /\ \A w \in DOMAIN wk : wk[w].pc = "exited"
    /\ AllExecuted

(* C31: a run in which cancellation is never raised ends: main returns, *)
(* either at once because the configuration is rejected, or after the    *)
(* producer has sent every Job and closed the channel, the workers have  *)
(* drained it and exited, and every Job sent has its outcome logged,     *)
(* also when there are more Jobs than the channel holds.                 *)
C31_TerminatesWithoutCancel ==
    <>(cancelled \/ main.pc = "exit 1" \/ Completed)

(* A run without cancellation has ended with more Jobs executed than the *)
(* channel holds.                                                        *)
C31_Witness ==
    /\ ~cancelled
    /\ Completed
    /\ Len(sent) > Capacity

(* C32: the attempt that writes the Transcript file returns nil, and  *)
(* runJobWithRetry returns nil with it, without another attempt, backoff *)
(* or dial; a call that has returned nil takes no further step, and a    *)
(* file exists only for a call that has returned nil: the Job has at     *)
(* most one Transcript file.                                             *)
C32_StopsAtFirstSuccess ==
    [][ \A w \in DOMAIN wk :
           LET r == wk[w]
               q == wk'[w]
           IN  /\ files' # files =>
                     /\ q.pc = "returned"
                     /\ q.ret = Nil
                     /\ q.nRuns = r.nRuns
                     /\ q.nDials = r.nDials
               /\ r.pc = "returned" /\ r.ret = Nil => q = r /\ files' = files
               /\ Len(files') <= 1
               /\ files' # << >> => q.pc = "returned" /\ q.ret = Nil
               /\ q.pc = "returned" /\ q.ret = Nil => Len(files') = 1
      ]_vars

(* The first attempt of a call that allows a retry has succeeded, and *)
(* the call has returned with one file written.                       *)
C32_Witness ==
    \E w \in DOMAIN wk :
        /\ wk[w].pc = "returned"
        /\ wk[w].ret = Nil
        /\ wk[w].maxRetries = 1
        /\ wk[w].nRuns = 1
        /\ wk[w].nDials = 1
        /\ Len(files) = 1

====
